---------------------------- MODULE Spec2Model ----------------------------
(***************************************************************************)
(* KStack<T, const K: usize>(Vec<T>): a stack with a window over its K top *)
(* elements (src/src/lib.rs).  The operations new, push, pop, kpush, kpop  *)
(* and kshow are modelled on the backing Vec, together with the panics the *)
(* window loops can raise (usize arithmetic overflow, index out of bounds).*)
(***************************************************************************)
EXTENDS Integers, Sequences, FiniteSets, TLC

(* ------------------------------ bounds --------------------------------- *)
\* largest window size K the model instantiates (K ranges over 0..MaxK)
MaxK == 3
\* number of distinct element values of T
NumValues == 2
\* longest storage the model grows the stack to
MaxLen == 4
\* longest slice handed to kpush
MaxItems == 3

Values == 1..NumValues

(* ------------------------------ Option<T> ------------------------------ *)
None == <<>>
Some(v) == <<v>>

(* ------------------------------- usize --------------------------------- *)
\* width of usize in bits; the narrowest target Rust supports is modelled,
\* any wider usize behaves the same on the lengths reached here
USIZE_BITS == 16
USIZE_MAX == (2 ^ USIZE_BITS) - 1

\* a - b on usize when overflow checks are off: two's complement wrap
wrapping_sub(a, b) == (a - b) % (USIZE_MAX + 1)

\* TRUE iff a - b on usize overflows
sub_overflows(a, b) == a - b < 0

(* -------------------------------- Vec<T> ------------------------------- *)
\* Vec::new()
VecNew == <<>>

\* self.0[j], 0-indexed; only used where j is in bounds
VecIndex(s, j) == s[j + 1]

\* Vec::pop: removes the last element and returns it, or None if empty
VecPop(s) ==
    IF Len(s) = 0
    THEN [vec |-> s, ret |-> None]
    ELSE [vec |-> SubSeq(s, 1, Len(s) - 1), ret |-> Some(s[Len(s)])]

\* Vec::push
VecPush(s, item) == Append(s, item)

\* Vec::extend_from_slice
VecExtendFromSlice(s, items) == s \o items

\* [None; K]: the result array, indexed 0..K-1
NoneArray(k) == [i \in 0..(k - 1) |-> None]

(* ----------------------------- operations ------------------------------ *)
\* Each operation maps the storage (and its arguments) to the storage it
\* leaves, the value it returns and whether it panicked instead of returning.

\* KStack::new: no check of K
new(k) == [ok |-> TRUE, storage |-> VecNew]

\* pop that returns the top element without removing it
pop_keeps_top(s) ==
    [storage |-> s, result |-> VecPop(s).ret, panicked |-> FALSE]

\* pop that unwraps the Option and so panics on an empty stack
pop_unwrap(s) ==
    LET p == VecPop(s)
    IN  [storage |-> p.vec, result |-> p.ret, panicked |-> Len(s) = 0]

\* KStack::pop
pop(s) ==
    LET p == VecPop(s)
    IN  [storage |-> p.vec, result |-> p.ret, panicked |-> FALSE]

\* KStack::push
push(s, item) ==
    [storage |-> VecPush(s, item), result |-> None, panicked |-> FALSE]

\* kpush that pushes the slice from its last element to its first
kpush_reversed(s, items) ==
    [storage |-> s \o [j \in 1..Len(items) |-> items[Len(items) + 1 - j]],
     result |-> None, panicked |-> FALSE]

\* kpush that extends by items[1..], leaving out the first element
kpush_skips_first(s, items) ==
    [storage |-> s \o (IF items = <<>> THEN <<>> ELSE Tail(items)),
     result |-> None, panicked |-> FALSE]

\* KStack::kpush
kpush(s, items) ==
    [storage |-> VecExtendFromSlice(s, items), result |-> None,
     panicked |-> FALSE]

\* body of `for i in 0..=last { result[i] = self.0.pop(); }` from index i on:
\* the right-hand side self.0.pop() is evaluated before the bounds check of
\* result[i], so an out-of-bounds i panics after the pop has happened
\* writes: the indices i at which result[i] was addressed
RECURSIVE kpopLoop(_, _, _, _, _)
kpopLoop(s, result, i, last, k) ==
    IF i > last
    THEN [storage |-> s, result |-> result, panicked |-> FALSE, writes |-> {}]
    ELSE LET p == VecPop(s)
         IN  IF i >= k
             THEN [storage |-> p.vec, result |-> result, panicked |-> TRUE,
                   writes |-> {i}]
             ELSE LET r == kpopLoop(p.vec, [result EXCEPT ![i] = p.ret],
                                    i + 1, last, k)
                  IN  [r EXCEPT !.writes = @ \cup {i}]

\* kpop whose loop runs over the exclusive range 0..(K - 1)
kpop_exclusive_range(s, k, oc) ==
    IF sub_overflows(k, 1) /\ oc
    THEN [storage |-> s, result |-> NoneArray(k), panicked |-> TRUE]
    ELSE kpopLoop(s, NoneArray(k), 0, wrapping_sub(k, 1) - 1, k)

\* kpop that leaves a stack shorter than K alone and reports all slots absent
kpop_skips_when_short(s, k, oc) ==
    IF sub_overflows(k, 1) /\ oc
    THEN [storage |-> s, result |-> NoneArray(k), panicked |-> TRUE]
    ELSE IF Len(s) < k
         THEN [storage |-> s, result |-> NoneArray(k), panicked |-> FALSE]
         ELSE kpopLoop(s, NoneArray(k), 0, wrapping_sub(k, 1), k)

\* kpop that copies the window out but leaves it on the stack
kpop_keeps_storage(s, k, oc) ==
    IF sub_overflows(k, 1) /\ oc
    THEN [storage |-> s, result |-> NoneArray(k), panicked |-> TRUE]
    ELSE LET r == kpopLoop(s, NoneArray(k), 0, wrapping_sub(k, 1), k)
         IN  [storage |-> s, result |-> r.result, panicked |-> r.panicked]

\* KStack::kpop; oc = overflow checks enabled (debug profile);
\* underflow: the loop bound K - 1 overflowed usize
kpop(s, k, oc) ==
    IF sub_overflows(k, 1) /\ oc
    THEN [storage |-> s, result |-> NoneArray(k), panicked |-> TRUE,
          writes |-> {}, underflow |-> TRUE]
    ELSE LET r == kpopLoop(s, NoneArray(k), 0, wrapping_sub(k, 1), k)
         IN  [storage |-> r.storage, result |-> r.result,
              panicked |-> r.panicked, writes |-> r.writes,
              underflow |-> sub_overflows(k, 1)]

\* body of `for i in 0..=last { result[i] = Some(self.0[len - i - 1]); }`:
\* the index expression len - i - 1 and self.0[..] are evaluated first, then
\* result[i] is bounds-checked
\* writes: the indices i at which result[i] was addressed; reads: the
\* indices len - i - 1 at which self.0 was addressed
RECURSIVE kshowLoop(_, _, _, _, _)
kshowLoop(s, result, i, last, k) ==
    IF i > last
    THEN [storage |-> s, result |-> result, panicked |-> FALSE,
          writes |-> {}, reads |-> {}]
    ELSE IF sub_overflows(Len(s) - i, 1) \/ sub_overflows(Len(s), i)
         THEN [storage |-> s, result |-> result, panicked |-> TRUE,
               writes |-> {}, reads |-> {Len(s) - i - 1}]
         ELSE IF i >= k
              THEN [storage |-> s, result |-> result, panicked |-> TRUE,
                    writes |-> {i}, reads |-> {Len(s) - i - 1}]
              ELSE LET r == kshowLoop(s,
                              [result EXCEPT
                                 ![i] = Some(VecIndex(s, Len(s) - i - 1))],
                              i + 1, last, k)
                   IN  [r EXCEPT !.writes = @ \cup {i},
                                 !.reads = @ \cup {Len(s) - i - 1}]

\* kshow that takes the window off the stack, as kpop does
kshow_destructive(s, k, oc) == kpop(s, k, oc)

\* kshow that copies the window out and then pops the top element
kshow_pops_top(s, k, oc) ==
    LET n == IF Len(s) < k THEN Len(s) ELSE k
        r == kshowLoop(s, NoneArray(k), 0, n - 1, k)
    IN  [storage |-> VecPop(s).vec, result |-> r.result,
         panicked |-> r.panicked]

\* kshow without the branch for stacks shorter than K
kshow_no_short_branch(s, k, oc) ==
    IF Len(s) = 0
    THEN [storage |-> s, result |-> NoneArray(k), panicked |-> FALSE,
          writes |-> {}, reads |-> {}, underflow |-> FALSE]
    ELSE IF sub_overflows(k, 1) /\ oc
         THEN [storage |-> s, result |-> NoneArray(k), panicked |-> TRUE,
               writes |-> {}, reads |-> {}, underflow |-> TRUE]
         ELSE LET r == kshowLoop(s, NoneArray(k), 0, wrapping_sub(k, 1), k)
              IN  [storage |-> r.storage, result |-> r.result,
                   panicked |-> r.panicked, writes |-> r.writes,
                   reads |-> r.reads, underflow |-> sub_overflows(k, 1)]

\* KStack::kshow; underflow: the loop bound K - 1 overflowed usize
kshow(s, k, oc) ==
    IF Len(s) = 0
    THEN [storage |-> s, result |-> NoneArray(k), panicked |-> FALSE,
          writes |-> {}, reads |-> {}, underflow |-> FALSE]
    ELSE IF Len(s) < k
         THEN LET r == kshowLoop(s, NoneArray(k), 0, Len(s) - 1, k)
              IN  [storage |-> r.storage, result |-> r.result,
                   panicked |-> r.panicked, writes |-> r.writes,
                   reads |-> r.reads, underflow |-> FALSE]
         ELSE IF sub_overflows(k, 1) /\ oc
              THEN [storage |-> s, result |-> NoneArray(k), panicked |-> TRUE,
                    writes |-> {}, reads |-> {}, underflow |-> TRUE]
              ELSE LET r == kshowLoop(s, NoneArray(k), 0,
                                      wrapping_sub(k, 1), k)
                   IN  [storage |-> r.storage, result |-> r.result,
                        panicked |-> r.panicked, writes |-> r.writes,
                        reads |-> r.reads,
                        underflow |-> sub_overflows(k, 1)]

(* -------------------------------- state -------------------------------- *)
VARIABLES
    K,                \* the const generic window size of this KStack
    overflow_checks,  \* build profile: TRUE = debug (overflow panics)
    constructed,      \* new() returned a stack
    storage,          \* self.0
    op,               \* the last operation called
    items,            \* argument of the last kpush / push (as a slice)
    result,           \* value the last operation returned
    panicked,         \* the last operation panicked (the program is over)
    before,           \* storage when the last operation was called
    prevOp,           \* the operation called before the last one
    prevResult,       \* and what it returned
    prevBefore,       \* and the storage when it was called
    pushed,           \* recorded run: the elements pushed so far, in order
    returned          \* recorded run: what the removals returned so far, in order

vars == <<K, overflow_checks, constructed, storage, op, items, result,
          panicked, before, prevOp, prevResult, prevBefore, pushed,
          returned>>

\* sequences over S of length at most n
SeqsUpTo(S, n) == UNION {[1..m -> S] : m \in 0..n}

Init ==
    /\ K \in 0..MaxK
    /\ overflow_checks \in BOOLEAN
    /\ constructed = new(K).ok
    /\ storage = new(K).storage
    /\ op = "new"
    /\ items = <<>>
    /\ result = None
    /\ panicked = FALSE
    /\ before = <<>>
    /\ prevOp = "none"
    /\ prevResult = None
    /\ prevBefore = <<>>
    /\ pushed = <<>>
    /\ returned = <<>>

\* what every call does to the bookkeeping variables
Call(name, r, args) ==
    /\ constructed
    /\ ~panicked
    /\ op' = name
    /\ items' = args
    /\ before' = storage
    /\ storage' = r.storage
    /\ result' = r.result
    /\ panicked' = r.panicked
    /\ prevOp' = op
    /\ prevResult' = result
    /\ prevBefore' = before
    /\ UNCHANGED <<K, overflow_checks, constructed>>

\* push that treats K as the capacity of the stack: a full stack drops item
Push_capped_at_K(item) ==
    /\ Len(storage) < MaxLen
    /\ Call("push",
            IF Len(storage) >= K
            THEN [storage |-> storage, result |-> None, panicked |-> FALSE]
            ELSE push(storage, item),
            <<item>>)
    /\ UNCHANGED <<pushed, returned>>

Push(item) ==
    /\ Len(storage) < MaxLen
    /\ Call("push", push(storage, item), <<item>>)
    /\ UNCHANGED <<pushed, returned>>

Pop ==
    /\ Call("pop", pop(storage), <<>>)
    /\ UNCHANGED <<pushed, returned>>

KPush(slice) ==
    /\ Len(storage) + Len(slice) <= MaxLen
    /\ Call("kpush", kpush(storage, slice), slice)
    /\ UNCHANGED <<pushed, returned>>

KPop ==
    /\ Call("kpop", kpop(storage, K, overflow_checks), <<>>)
    /\ UNCHANGED <<pushed, returned>>

KShow ==
    /\ Call("kshow", kshow(storage, K, overflow_checks), <<>>)
    /\ UNCHANGED <<pushed, returned>>

Next ==
    \/ \E item \in Values : Push(item)
    \/ Pop
    \/ \E slice \in SeqsUpTo(Values, MaxItems) : KPush(slice)
    \/ KPop
    \/ KShow

Spec == Init /\ [][Next]_vars

(* --------------------------- push/pop runs ----------------------------- *)
\* A run as in tests::test_push_pop: on a new stack, n pushes p1..pn and
\* then n + 1 pops, with the arguments and the returned values recorded.
RunPush(item) ==
    /\ returned = <<>>
    /\ Len(storage) < MaxLen
    /\ Call("push", push(storage, item), <<item>>)
    /\ pushed' = Append(pushed, item)
    /\ UNCHANGED returned

RunPop ==
    /\ Len(returned) <= Len(pushed)
    /\ Call("pop", pop(storage), <<>>)
    /\ returned' = Append(returned, pop(storage).result)
    /\ UNCHANGED pushed

NextPushPop ==
    \/ \E item \in Values : RunPush(item)
    \/ RunPop

SpecPushPop == Init /\ [][NextPushPop]_vars

(* ---------------------------- recorded runs ---------------------------- *)
\* Any sequence of the five operations on a new stack, with every element
\* handed to push / kpush recorded in pushed and every Some(..) handed back
\* by pop / kpop recorded in returned (a None hands back no element; a call
\* that panics returns nothing).

\* the present values of result array a of k slots, slot 0 first
RECURSIVE PresentFrom(_, _, _)
PresentFrom(a, i, k) ==
    IF i >= k
    THEN <<>>
    ELSE (IF a[i] = None THEN <<>> ELSE <<a[i]>>) \o PresentFrom(a, i + 1, k)

LogPush(item) ==
    /\ Len(pushed) < MaxLen
    /\ Call("push", push(storage, item), <<item>>)
    /\ pushed' = Append(pushed, item)
    /\ UNCHANGED returned

LogPop ==
    /\ Call("pop", pop(storage), <<>>)
    /\ LET r == pop(storage)
       IN  returned' = IF r.panicked \/ r.result = None
                       THEN returned
                       ELSE Append(returned, r.result)
    /\ UNCHANGED pushed

LogKPush(slice) ==
    /\ Len(pushed) + Len(slice) <= MaxLen
    /\ Call("kpush", kpush(storage, slice), slice)
    /\ pushed' = pushed \o slice
    /\ UNCHANGED returned

LogKPop ==
    /\ Call("kpop", kpop(storage, K, overflow_checks), <<>>)
    /\ LET r == kpop(storage, K, overflow_checks)
       IN  returned' = IF r.panicked
                       THEN returned
                       ELSE returned \o PresentFrom(r.result, 0, K)
    /\ UNCHANGED pushed

LogKShow ==
    /\ Call("kshow", kshow(storage, K, overflow_checks), <<>>)
    /\ UNCHANGED <<pushed, returned>>

NextLogged ==
    \/ \E item \in Values : LogPush(item)
    \/ LogPop
    \/ \E slice \in SeqsUpTo(Values, MaxItems) : LogKPush(slice)
    \/ LogKPop
    \/ LogKShow

SpecLogged == Init /\ [][NextLogged]_vars

(* ----------------------------- drain runs ------------------------------ *)
\* A run as in tests::test_kshow_underflow: a new stack is filled by n pushes
\* (RunPush) and then drained by kpop calls only, each result recorded as one
\* entry of returned; kshow may look at any time after the first kpop, and
\* pop is called once the stack is empty.  At most n + 1 kpop calls are made.
DrainKPop ==
    /\ Len(returned) <= Len(pushed)
    /\ Call("kpop", kpop(storage, K, overflow_checks), <<>>)
    /\ LET r == kpop(storage, K, overflow_checks)
       IN  returned' = IF r.panicked
                       THEN returned
                       ELSE Append(returned, r.result)
    /\ UNCHANGED pushed

DrainKShow ==
    /\ returned # <<>>
    /\ Call("kshow", kshow(storage, K, overflow_checks), <<>>)
    /\ UNCHANGED <<pushed, returned>>

DrainPop ==
    /\ returned # <<>>
    /\ storage = <<>>
    /\ Call("pop", pop(storage), <<>>)
    /\ UNCHANGED <<pushed, returned>>

NextDrain ==
    \/ \E item \in Values : RunPush(item)
    \/ DrainKPop
    \/ DrainKShow
    \/ DrainPop

SpecDrain == Init /\ [][NextDrain]_vars

(* ------------------------------- claims -------------------------------- *)
Min(a, b) == IF a < b THEN a ELSE b

\* C1: for every K >= 1 and every storage s of length n, kpop returns K
\* slots, slot i holding s[n-1-i] when i < n and None when i >= n.
C1_KpopSlots ==
    (op = "kpop" /\ K >= 1) =>
        /\ ~panicked
        /\ DOMAIN result = 0..(K - 1)
        /\ \A i \in 0..(K - 1) :
              result[i] = IF i < Len(before)
                          THEN Some(before[Len(before) - i])
                          ELSE None

\* a kpop with K >= 2 on a non-empty stack shorter than K: present and
\* absent slots in one result
C1_Witness ==
    /\ op = "kpop" /\ ~panicked
    /\ K >= 2
    /\ Len(before) >= 1 /\ Len(before) < K

\* C2: kpop removes exactly min(K, n) elements: the storage afterwards is the
\* first n - min(K, n) elements of the storage before.
C2_KpopRemovesMin ==
    op = "kpop" =>
        storage = SubSeq(before, 1, Len(before) - Min(K, Len(before)))

\* C3: kshow leaves the storage exactly as it found it.
C3_KshowNonDestructive ==
    op = "kshow" => storage = before

\* a kshow that returned on a stack holding more than K >= 1 elements
C3_Witness ==
    /\ op = "kshow" /\ ~panicked
    /\ K >= 1
    /\ Len(before) > K

\* C4: kshow followed immediately by kpop: kpop returns what kshow returned,
\* slot for slot, at every stack length.
C4_KshowThenKpop ==
    (op = "kpop" /\ prevOp = "kshow") =>
        /\ ~panicked
        /\ result = prevResult

\* C5: on a new stack, after pushes p1..pn the j-th pop returns p(n+1-j) for
\* j <= n and the (n+1)-th pop returns None.
C5_PushPopInverse ==
    \A j \in 1..Len(returned) :
        returned[j] = IF j <= Len(pushed)
                      THEN Some(pushed[Len(pushed) + 1 - j])
                      ELSE None

\* a run of n >= 2 pushes of differing values, all n + 1 pops done
C5_Witness ==
    /\ Len(pushed) >= 2
    /\ pushed[1] # pushed[2]
    /\ Len(returned) = Len(pushed) + 1

\* the storage after calling push once per element of slice, in order
RECURSIVE PushEach(_, _)
PushEach(s, slice) ==
    IF slice = <<>>
    THEN s
    ELSE PushEach(push(s, Head(slice)).storage, Tail(slice))

\* C6: kpush(items) leaves the storage that one push per element of items,
\* in order, leaves; the last element of items is the new top; an empty
\* items changes nothing; the call always returns.
C6_KpushIsPushEach ==
    op = "kpush" =>
        /\ ~panicked
        /\ storage = PushEach(before, items)
        /\ Len(storage) = Len(before) + Len(items)
        /\ items # <<>> => storage[Len(storage)] = items[Len(items)]
        /\ items = <<>> => storage = before

\* a kpush of more than K >= 1 differing elements onto a non-empty stack
C6_Witness ==
    /\ op = "kpush"
    /\ K >= 1
    /\ Len(items) > K
    /\ items[1] # items[Len(items)]
    /\ before # <<>>

\* C7: on a constructed stack no call to push, pop, kpush, kpop or kshow
\* panics, for any K the constructor accepted.
C7_NoPanic ==
    constructed => ~panicked

\* C8: construction with K = 0 fails; with K >= 1 it yields an empty stack
\* on which pop returns None.
C8_ConstructionValidation ==
    op = "new" =>
        IF K = 0
        THEN ~constructed
        ELSE /\ constructed
             /\ storage = <<>>
             /\ pop(storage).result = None

\* C9: a kshow that follows a kshow returns what the first one returned.
C9_KshowIdempotent ==
    (op = "kshow" /\ prevOp = "kshow") =>
        /\ ~panicked
        /\ result = prevResult

\* two kshow calls in a row on a non-empty stack, K >= 1
C9_Witness ==
    /\ op = "kshow" /\ prevOp = "kshow"
    /\ K >= 1
    /\ storage # <<>>

\* C10: on an empty stack kpop and kshow return K absent slots, leave the
\* stack empty and raise no error.
C10_EmptyWindow ==
    (op \in {"kpop", "kshow"} /\ before = <<>>) =>
        /\ ~panicked
        /\ storage = <<>>
        /\ result = NoneArray(K)

\* C11: pop on an empty stack returns None, does not fail and leaves the
\* stack empty; pop on a stack of length n returns the top element and
\* leaves the n - 1 elements below it, unchanged and in order.
C11_PopTopOrNone ==
    op = "pop" =>
        /\ ~panicked
        /\ IF before = <<>>
           THEN result = None /\ storage = <<>>
           ELSE /\ result = Some(before[Len(before)])
                /\ storage = SubSeq(before, 1, Len(before) - 1)

\* a pop on the empty stack right after the pop that took the last element
C11_Witness ==
    /\ op = "pop" /\ before = <<>>
    /\ prevOp = "pop" /\ prevResult # None

\* C12: K is no capacity: push lengthens the storage by exactly 1 and kpush
\* by exactly Len(items), keeping what was there, also when the stack
\* already holds K or more elements.
C12_NoCapacity ==
    /\ op = "push" =>
          /\ ~panicked
          /\ Len(storage) = Len(before) + 1
          /\ storage = before \o items
    /\ op = "kpush" =>
          /\ ~panicked
          /\ Len(storage) = Len(before) + Len(items)
          /\ SubSeq(storage, 1, Len(before)) = before

\* a push onto a stack that already holds more than K >= 1 elements
C12_Witness ==
    /\ op = "push"
    /\ K >= 1
    /\ Len(before) > K
    /\ Len(storage) > Len(before)

\* C13: a call either completes or is rejected before any mutation: a call
\* that aborts (panics) has left the storage as it found it.
C13_NoPartialApplication ==
    panicked => storage = before

\* results and storage of k successive pop calls on s
RECURSIVE PopTimes(_, _)
PopTimes(s, k) ==
    IF k = 0
    THEN [storage |-> s, results |-> <<>>]
    ELSE LET p == pop(s)
             rest == PopTimes(p.storage, k - 1)
         IN  [storage |-> rest.storage, results |-> <<p.result>> \o rest.results]

\* C14: for K >= 1, slot i of kpop's result is what the (i+1)-th of K
\* successive pops returns, and both leave the same storage.
C14_KpopIsKPops ==
    (op = "kpop" /\ K >= 1) =>
        LET r == PopTimes(before, K)
        IN  /\ ~panicked
            /\ \A i \in 0..(K - 1) : result[i] = r.results[i + 1]
            /\ storage = r.storage

\* a kpop with K >= 2 that runs past the bottom of a stack of differing values
C14_Witness ==
    /\ op = "kpop" /\ ~panicked
    /\ K >= 2
    /\ Len(before) >= 2 /\ Len(before) < K
    /\ before[1] # before[2]

\* how many times v occurs in sequence q
Count(q, v) == Cardinality({j \in DOMAIN q : q[j] = v})

\* C15: at every state of every run the elements pushed so far are exactly
\* the elements in storage plus the elements already returned by pop and
\* kpop, counted with multiplicity.
C15_Conservation ==
    \A v \in Values :
        Count(pushed, v) = Count(storage, v) + Count(returned, Some(v))

\* the values v of a sequence q of Some(v)
Unwrapped(q) == [j \in 1..Len(q) |-> q[j][1]]

\* sequence q from its last element to its first
Reverse(q) == [j \in 1..Len(q) |-> q[Len(q) + 1 - j]]

\* C16: for K >= 1, a kpop followed by a kpush of the present values of its
\* result in reverse slot order restores the storage the kpop found.
C16_KpopKpushRoundTrip ==
    (/\ op = "kpush" /\ prevOp = "kpop"
     /\ K >= 1
     /\ items = Reverse(Unwrapped(PresentFrom(prevResult, 0, K)))) =>
        /\ ~panicked
        /\ storage = prevBefore

\* a round trip that took and put back two or more differing elements and
\* left at least one element untouched below them
C16_Witness ==
    /\ op = "kpush" /\ prevOp = "kpop"
    /\ K >= 2
    /\ items = Reverse(Unwrapped(PresentFrom(prevResult, 0, K)))
    /\ Len(items) >= 2
    /\ items[1] # items[2]
    /\ before # <<>>

Max(a, b) == IF a > b THEN a ELSE b

\* ceil(n / k) for k >= 1
CeilDiv(n, k) == (n + k - 1) \div k

\* C17: for K >= 1 every kpop on a non-empty stack shortens it, a stack of
\* n elements is empty after exactly ceil(n / K) kpop calls and not before,
\* and it stays empty under further kpop, pop and kshow calls.
C17_DrainTerminates ==
    (K >= 1 /\ returned # <<>>) =>
        /\ (op = "kpop" /\ before # <<>>) => Len(storage) < Len(before)
        /\ Len(storage) = Max(0, Len(pushed) - K * Len(returned))
        /\ storage = <<>> <=> Len(returned) >= CeilDiv(Len(pushed), K)

\* a stack of n > K elements, n no multiple of K >= 2, drained and then
\* called again: a kpop beyond the ceil(n / K)-th and a kshow after it
C17_Witness ==
    /\ K >= 2
    /\ Len(pushed) > K
    /\ Len(pushed) % K # 0
    /\ Len(returned) > CeilDiv(Len(pushed), K)
    /\ op = "kshow"
    /\ storage = <<>>

\* C18: for K >= 1, kshow on a stack of length n addresses result[i] exactly
\* for i in 0..min(n, K)-1, all within 0..K-1, and reads self.0 only at
\* indices n - i - 1 within 0..n-1; kpop's loop bound K - 1 does not
\* underflow and its i runs over exactly 0..K-1.  With K = 0 the
\* subtraction K - 1 of kpop's loop bound underflows.
C18_IndexSafety ==
    /\ (op = "kshow" /\ K >= 1) =>
          LET r == kshow(before, K, overflow_checks)
              n == Len(before)
          IN  /\ ~panicked
              /\ ~r.underflow
              /\ r.writes = 0..(Min(n, K) - 1)
              /\ r.writes \subseteq 0..(K - 1)
              /\ r.reads = {n - i - 1 : i \in r.writes}
              /\ r.reads \subseteq 0..(n - 1)
    /\ (op = "kpop" /\ K >= 1) =>
          LET r == kpop(before, K, overflow_checks)
          IN  /\ ~panicked
              /\ ~r.underflow
              /\ r.writes = 0..(K - 1)
    /\ (op = "kpop" /\ K = 0) =>
          /\ kpop(before, K, overflow_checks).underflow
          /\ panicked

\* a kshow with K >= 2 on a non-empty stack shorter than K: the branch whose
\* loop is bounded by the stack length
C18_Witness ==
    /\ op = "kshow" /\ ~panicked
    /\ K >= 2
    /\ Len(before) >= 1 /\ Len(before) < K

=============================================================================
